---- MODULE Spec2Model ----
(***************************************************************************)
(* Model of the Wikipedia TOC analyzer (src/app.py): the outline parser     *)
(* extract_toc, the rename resolver detect_renamed_sections, the change     *)
(* scorer calculate_toc_change_significance and the loop of                 *)
(* process_revision_history.                                                *)
(*                                                                          *)
(* Strings are sequences of one-character strings, so that strip, split,    *)
(* startswith, lower and the SequenceMatcher ratio are computed character   *)
(* by character as Python computes them.  A Python value that may be None   *)
(* is a sequence of length 0 (None) or 1 (the value).                       *)
(***************************************************************************)
EXTENDS Integers, Sequences, FiniteSets, TLC

VARIABLES
    \* ---- extract_toc (src/app.py:90-123)
    wikitext,              \* the argument: a string
    lines,                 \* wikitext.split('\n')
    lineNo,                \* index of the next line of the for loop
    sections,              \* the list being built
    current_level_stack,   \* the stack of raw levels
    tocPc,                 \* "split" | "loop" | "caught" | "done" | "off"
    \* ---- detect_renamed_sections (src/app.py:125-198)
    prev_titles, curr_titles, renamed_sections, renPc,
    rename_threshold,      \* st.session_state.rename_threshold, in twentieths
    \* ---- similarity inside detect_renamed_sections (src/app.py:132-143)
    sim_a, sim_b,          \* the two titles
    sim_score,             \* None or the score returned, a fraction
    simPc,                 \* "call" | "done" | "off"
    \* ---- calculate_toc_change_significance (src/app.py:200-260)
    score_current, score_previous,   \* the two arguments: Python values
    score_result,          \* the pair returned
    scorePc,               \* "call" | "done" | "off"
    \* ---- process_revision_history (src/app.py:262-377)
    revisions,             \* get_page_history(title): newest first
    mode, significance_threshold, start_year, end_year,
    pos,                   \* position of the loop in reversed(revisions)
    toc_revisions,         \* dict in insertion order: sequence of [key, data]
    years_processed,
    previous_sections,     \* None or a set of titles
    prev_sections_data,    \* None or a list of sections
    significant_revisions,
    fetched,               \* history: revids get_revision_content returned content for
    histPc,                \* "loop" | "finish" | "done" | "off"
    \* ---- get_toc_history (src/utils/wiki-utils.py:89-126)
    util_revisions,        \* get_page_history(title, start_date, end_date): newest first
    util_pos,              \* position of the for loop in the list
    toc_history,           \* dict in insertion order: sequence of [year, sections]
    processed_years,
    util_result,           \* None or the dict returned
    utilPc                 \* "loop" | "done" | "off"

tocVars == <<wikitext, lines, lineNo, sections, current_level_stack, tocPc>>
renVars == <<prev_titles, curr_titles, renamed_sections, renPc, rename_threshold>>
simVars == <<sim_a, sim_b, sim_score, simPc>>
scoreVars == <<score_current, score_previous, score_result, scorePc>>
histVars == <<revisions, mode, significance_threshold, start_year, end_year, pos,
              toc_revisions, years_processed, previous_sections, prev_sections_data,
              significant_revisions, fetched, histPc>>
utilVars == <<util_revisions, util_pos, toc_history, processed_years, util_result, utilPc>>
vars == <<tocVars, renVars, simVars, scoreVars, histVars, utilVars>>

(***************************************************************************)
(* Bounds of the model.                                                     *)
(***************************************************************************)
MaxLines == 3        \* lines of a text given to extract_toc
MaxMarkers == 4      \* longest run of '=' on one side of a heading
MaxTitles == 3       \* titles in each set given to detect_renamed_sections
MaxRevs == 3         \* revisions returned by get_page_history

None == <<>>
Some(x) == <<x>>
IsNone(o) == o = <<>>
Val(o) == o[1]

(***************************************************************************)
(* Python string methods.                                                   *)
(***************************************************************************)
RECURSIVE LStrip(_, _)
LStrip(s, cs) == IF s # <<>> /\ Head(s) \in cs THEN LStrip(Tail(s), cs) ELSE s

RECURSIVE RStrip(_, _)
RStrip(s, cs) ==
    IF s # <<>> /\ s[Len(s)] \in cs THEN RStrip(SubSeq(s, 1, Len(s) - 1), cs) ELSE s

\* str.strip(chars)
StripChars(s, cs) == RStrip(LStrip(s, cs), cs)

\* str.strip(): the whitespace of the model's alphabet
Whitespace == {" ", "\t"}
Strip(s) == StripChars(s, Whitespace)

\* str.startswith('==') and str.endswith('==')
StartsWithEqEq(s) == Len(s) >= 2 /\ s[1] = "=" /\ s[2] = "="
EndsWithEqEq(s) == Len(s) >= 2 /\ s[Len(s)] = "=" /\ s[Len(s) - 1] = "="

\* str.split('\n'): always at least one (possibly empty) line
RECURSIVE SplitLines(_, _)
SplitLines(s, cur) ==
    IF s = <<>> THEN <<cur>>
    ELSE IF Head(s) = "\n" THEN <<cur>> \o SplitLines(Tail(s), <<>>)
    ELSE SplitLines(Tail(s), Append(cur, Head(s)))

Split(s) == SplitLines(s, <<>>)

\* str.lower() on the model's alphabet
LowerChar(c) ==
    CASE c = "A" -> "a" [] c = "B" -> "b" [] c = "C" -> "c" [] c = "D" -> "d"
      [] OTHER -> c
Lower(s) == [i \in 1..Len(s) |-> LowerChar(s[i])]

(***************************************************************************)
(* extract_toc                                                              *)
(***************************************************************************)
\* a variant of the loop of line 110 that keeps an entry equal to raw_level
RECURSIVE PopStackStrict(_, _)
PopStackStrict(stack, raw_level) ==
    IF stack # <<>> /\ raw_level < stack[Len(stack)]
    THEN PopStackStrict(SubSeq(stack, 1, Len(stack) - 1), raw_level)
    ELSE stack

\* the while loop of line 110: pop while the top is >= raw_level
RECURSIVE PopStack(_, _)
PopStack(stack, raw_level) ==
    IF stack # <<>> /\ raw_level <= stack[Len(stack)]
    THEN PopStack(SubSeq(stack, 1, Len(stack) - 1), raw_level)
    ELSE stack

\* lines 106-113: the stack after a heading of this raw level
PushLevel(stack, raw_level) ==
    IF stack = <<>> \/ raw_level > stack[Len(stack)]
    THEN Append(stack, raw_level)
    ELSE Append(PopStack(stack, raw_level), raw_level)

\* line 101
IsHeading(line) == StartsWithEqEq(line) /\ EndsWithEqEq(line)
\* line 102
HeadingTitle(line) == Strip(StripChars(line, {"="}))
\* line 103
RawLevel(line) == (Len(line) - Len(HeadingTitle(line))) \div 2

\* lines 115-120: a section is recorded only when the title is not empty
EmitSection(secs, title, level, raw_level) ==
    IF title # <<>>
    THEN Append(secs, [title |-> title, level |-> level, raw_level |-> raw_level])
    ELSE secs

\* one iteration of the for loop (lines 99-120) on the state [stack, sections]
TocLine(st, rawline) ==
    LET line == Strip(rawline) IN
    IF IsHeading(line)
    THEN LET title == HeadingTitle(line)
             raw_level == RawLevel(line)
             newStack == PushLevel(st.stack, raw_level)
             level == Len(newStack)
         IN  [stack |-> newStack,
              sections |-> EmitSection(st.sections, title, level, raw_level)]
    ELSE st

RECURSIVE TocFold(_, _)
TocFold(st, ls) == IF ls = <<>> THEN st ELSE TocFold(TocLine(st, Head(ls)), Tail(ls))

\* extract_toc(wikitext) as a function of the text
extract_toc(text) == TocFold([stack |-> <<>>, sections |-> <<>>], Split(text)).sections

(***************************************************************************)
(* Dictionaries with title keys (case_renames, renamed_sections) are sets   *)
(* of entries [new |-> key, old |-> value] holding at most one entry per    *)
(* key.                                                                     *)
(***************************************************************************)
DictSet(d, k, v) == {e \in d : e.new # k} \cup {[new |-> k, old |-> v]}
DictKeys(d) == {e.new : e \in d}
DictValues(d) == {e.old : e \in d}
DictHas(d, k) == k \in DictKeys(d)
DictGet(d, k) == (CHOOSE e \in d : e.new = k).old

Min(x, y) == IF x <= y THEN x ELSE y
Max(x, y) == IF x >= y THEN x ELSE y

(***************************************************************************)
(* difflib.SequenceMatcher(None, a, b).ratio() = 2*M/T, M the total size of *)
(* the matching blocks: the longest common block (earliest in a, then       *)
(* earliest in b), then the same to its left and to its right.              *)
(***************************************************************************)
RECURSIVE RunLen(_, _, _, _, _, _)
RunLen(a, b, i, j, ahi, bhi) ==
    IF i <= ahi /\ j <= bhi /\ a[i] = b[j] THEN 1 + RunLen(a, b, i + 1, j + 1, ahi, bhi)
    ELSE 0

\* find_longest_match on a[alo..ahi], b[blo..bhi]: <<i, j, k>>
LongestMatch(a, b, alo, ahi, blo, bhi) ==
    LET cand == {<<i, j, RunLen(a, b, i, j, ahi, bhi)>> : i \in alo..ahi, j \in blo..bhi}
        best == CHOOSE c \in cand :
                    \A d \in cand :
                        \/ c[3] > d[3]
                        \/ c[3] = d[3] /\ c[1] < d[1]
                        \/ c[3] = d[3] /\ c[1] = d[1] /\ c[2] <= d[2]
    IN  best

RECURSIVE MatchTotal(_, _, _, _, _, _)
MatchTotal(a, b, alo, ahi, blo, bhi) ==
    IF alo > ahi \/ blo > bhi THEN 0
    ELSE LET m == LongestMatch(a, b, alo, ahi, blo, bhi) IN
         IF m[3] = 0 THEN 0
         ELSE m[3] + MatchTotal(a, b, alo, m[1] - 1, blo, m[2] - 1)
                   + MatchTotal(a, b, m[1] + m[3], ahi, m[2] + m[3], bhi)

(***************************************************************************)
(* similarity(a, b) of detect_renamed_sections, as the exact fraction       *)
(* num/den of ratio*0.8 + len_diff_factor*0.1 + (prefix_match/3)*0.1; the   *)
(* titles compared are never empty.                                         *)
(***************************************************************************)
PrefixMatch(a, b) ==
    IF Lower(SubSeq(a, 1, Min(3, Len(a)))) = Lower(SubSeq(b, 1, Min(3, Len(b))))
    THEN Min(3, Min(Len(a), Len(b)))
    ELSE 0

similarity(a, b) ==
    LET M == MatchTotal(Lower(a), Lower(b), 1, Len(a), 1, Len(b))
        T == Len(a) + Len(b)
        mn == Min(Len(a), Len(b))
        mx == Max(Len(a), Len(b))
    IN  [num |-> 48 * M * mx + 3 * mn * T + PrefixMatch(a, b) * T * mx,
         den |-> 30 * T * mx]

\* line 184: sim_score > 0.65
AboveThreshold(s) == 20 * s.num > 13 * s.den
ScoreLeq(s, t) == s.num * t.den <= t.num * s.den

(***************************************************************************)
(* detect_renamed_sections.  Python iterates a set in an order the program  *)
(* does not control, so the result is the set of the dictionaries that some *)
(* iteration order produces.                                                *)
(***************************************************************************)
CaseDiffers(old_title, new_title) ==
    Lower(old_title) = Lower(new_title) /\ old_title # new_title

\* a variant of lines 156-158 that records no pair
CaseInnerSkip(old_title, newRest, d) == d

\* lines 156-158: the inner loop for one old title
CaseInner(old_title, newRest, d) ==
    LET hit == {n \in newRest : CaseDiffers(old_title, n)} IN
    {e \in d : e.new \notin hit} \cup {[new |-> n, old |-> old_title] : n \in hit}

\* lines 155-158: the outer loop, in every order of the old titles
RECURSIVE CaseLoop(_, _, _)
CaseLoop(todo, newRest, d) ==
    IF todo = {} THEN {d}
    ELSE UNION {CaseLoop(todo \ {o}, newRest, CaseInner(o, newRest, d)) : o \in todo}

\* lines 162-163: {s.lower(): s for s in S}: one title kept per lowercase key
CaseMaps(S) ==
    {m \in SUBSET S : \A s \in S : Cardinality({t \in m : Lower(t) = Lower(s)}) = 1}

\* lines 166-170: titles left over that differ only in case
CaseFallback(prevMap, currMap, d) ==
    LET hit == {<<o, n>> \in prevMap \X currMap : Lower(o) = Lower(n) /\ o # n} IN
    {e \in d : e.new \notin {h[2] : h \in hit}}
        \cup {[new |-> h[2], old |-> h[1]] : h \in hit}

\* a variant of lines 181-190 that takes any candidate above the threshold
BestCandidatesAny(old_title, added) ==
    {n \in added : AboveThreshold(similarity(old_title, n))}

\* lines 181-190: the candidates above the threshold with the highest score
BestCandidates(old_title, added) ==
    LET cands == {n \in added : AboveThreshold(similarity(old_title, n))} IN
    {b \in cands : \A c \in cands : ScoreLeq(similarity(old_title, c), similarity(old_title, b))}

\* lines 180-196, in every order of removed_titles and of equal-score candidates
RECURSIVE SimilarityLoop(_, _, _)
SimilarityLoop(todo, added, d) ==
    IF todo = {} THEN {d}
    ELSE UNION {
        LET best == BestCandidates(o, added) IN
        IF best = {} THEN SimilarityLoop(todo \ {o}, added, d)
        ELSE UNION {SimilarityLoop(todo \ {o}, added \ {b}, DictSet(d, b, o)) : b \in best}
        : o \in todo}

\* a variant of lines 174-198 whose candidate pool keeps the exact matches
SimilarityStepAllCurrent(prev, curr, exact_matches, case_renames) ==
    SimilarityLoop((prev \ exact_matches) \ DictValues(case_renames),
                   curr \ DictKeys(case_renames),
                   case_renames)

\* lines 174-198 after the case steps
SimilarityStep(prev, curr, exact_matches, case_renames) ==
    SimilarityLoop((prev \ exact_matches) \ DictValues(case_renames),
                   (curr \ exact_matches) \ DictKeys(case_renames),
                   case_renames)

\* lines 162-170 after the first case loop
FallbackStep(prev, curr, exact_matches, case_renames) ==
    {CaseFallback(pm, cm, case_renames) :
        pm \in CaseMaps((prev \ exact_matches) \ DictValues(case_renames)),
        cm \in CaseMaps((curr \ exact_matches) \ DictKeys(case_renames))}

detect_renamed_sections(prev, curr) ==
    LET exact_matches == prev \cap curr
        first == CaseLoop(prev \ exact_matches, curr \ exact_matches, {})
        second == UNION {FallbackStep(prev, curr, exact_matches, d) : d \in first}
    IN  UNION {SimilarityStep(prev, curr, exact_matches, d) : d \in second}

(***************************************************************************)
(* The titles and texts the model draws its inputs from.                    *)
(***************************************************************************)
t_ab == <<"a", "b">>
t_Ab == <<"A", "b">>
t_AB == <<"A", "B">>
t_abc == <<"a", "b", "c">>
t_abb == <<"a", "b", "b">>
t_c == <<"c">>
TitleUniverse == {t_ab, t_Ab, t_AB, t_abc, t_abb, t_c}
TitleSets == {S \in SUBSET TitleUniverse : Cardinality(S) <= MaxTitles}

Rep(c, n) == [i \in 1..n |-> c]

\* a line: `open` markers, `lpad` blanks, the title, `rpad` blanks, `close` markers
MarkedLine(open, lpad, title, rpad, close) ==
    Rep("=", open) \o Rep(" ", lpad) \o title \o Rep(" ", rpad) \o Rep("=", close)

\* "==a==" ... with n markers on each side
Heading(n, title) == MarkedLine(n, 0, title, 0, n)

RECURSIVE JoinLines(_)
JoinLines(ls) ==
    IF ls = <<>> THEN <<>>
    ELSE IF Len(ls) = 1 THEN ls[1]
    ELSE ls[1] \o <<"\n">> \o JoinLines(Tail(ls))

TocLineSet ==
    {Heading(n, <<"a">>) : n \in 1..MaxMarkers}
        \cup {MarkedLine(2, 1, <<"a">>, 1, 2),      \* "== a =="
              MarkedLine(2, 1, <<>>, 0, 2),          \* "== ==": no title
              MarkedLine(3, 1, <<>>, 0, 3),          \* "=== ===": no title
              MarkedLine(2, 0, <<"a">>, 0, 3),       \* "==a===": mismatched markers
              <<"a">>,                               \* no markers
              <<>>}                                  \* empty line

TocTexts == {JoinLines(ls) : ls \in UNION {[1..n -> TocLineSet] : n \in 1..MaxLines}}

(***************************************************************************)
(* The programs are checked one at a time: a specification starts one of    *)
(* them and leaves the variables of the others at rest.                     *)
(***************************************************************************)
TocOff ==
    /\ wikitext = <<>> /\ lines = <<>> /\ lineNo = 0 /\ sections = <<>>
    /\ current_level_stack = <<>> /\ tocPc = "off"

\* the slider of lines 659-667, in twentieths: 0.50 to 0.90 in steps of 0.05, 0.65 at first
DefaultRenameThreshold == 13
SliderValues == 10..18

RenOff ==
    /\ prev_titles = {} /\ curr_titles = {} /\ renamed_sections = {} /\ renPc = "off"
    /\ rename_threshold = DefaultRenameThreshold

SimOff == sim_a = <<>> /\ sim_b = <<>> /\ sim_score = None /\ simPc = "off"

ScoreOff ==
    /\ score_current = <<>> /\ score_previous = <<>> /\ score_result = <<>>
    /\ scorePc = "off"

HistOff ==
    /\ revisions = <<>> /\ mode = "yearly" /\ significance_threshold = 0
    /\ start_year = 0 /\ end_year = 0 /\ pos = 0 /\ toc_revisions = <<>>
    /\ years_processed = {} /\ previous_sections = None /\ prev_sections_data = None
    /\ significant_revisions = <<>> /\ fetched = <<>> /\ histPc = "off"

UtilOff ==
    /\ util_revisions = <<>> /\ util_pos = 0 /\ toc_history = <<>>
    /\ processed_years = {} /\ util_result = None /\ utilPc = "off"

(***************************************************************************)
(* extract_toc, line by line.                                               *)
(***************************************************************************)
\* an argument that is not a string (None): it has no split method
NotAString == <<"None">>

\* line 98: wikitext.split raises AttributeError
SplitRaises(text) == text = NotAString

\* a variant of line 121 that catches nothing
CaughtNever(text) == FALSE

\* line 121: `except Exception` catches the error raised inside the try
Caught(text) == SplitRaises(text)

TocInit ==
    /\ wikitext \in TocTexts \cup {NotAString}
    /\ lines = <<>> /\ lineNo = 0
    /\ sections = <<>> /\ current_level_stack = <<>>      \* lines 94-95
    /\ tocPc = "split"
    /\ RenOff /\ SimOff /\ ScoreOff /\ HistOff /\ UtilOff

\* line 98
TocSplit ==
    /\ tocPc = "split" /\ ~SplitRaises(wikitext)
    /\ lines' = Split(wikitext)
    /\ lineNo' = 1
    /\ tocPc' = "loop"
    /\ UNCHANGED <<wikitext, sections, current_level_stack, renVars, simVars, scoreVars, histVars, utilVars>>

\* lines 99-120: one iteration of the for loop
TocLoop ==
    /\ tocPc = "loop" /\ lineNo <= Len(lines)
    /\ LET st == TocLine([stack |-> current_level_stack, sections |-> sections],
                         lines[lineNo])
       IN  /\ current_level_stack' = st.stack
           /\ sections' = st.sections
    /\ lineNo' = lineNo + 1
    /\ UNCHANGED <<wikitext, lines, tocPc, renVars, simVars, scoreVars, histVars, utilVars>>

\* lines 121-122: the error of line 98 is caught and reported
TocExcept ==
    /\ tocPc = "split" /\ SplitRaises(wikitext) /\ Caught(wikitext)
    /\ tocPc' = "caught"
    /\ UNCHANGED <<wikitext, lines, lineNo, sections, current_level_stack,
                   renVars, simVars, scoreVars, histVars, utilVars>>

\* line 123
TocReturn ==
    /\ \/ tocPc = "loop" /\ lineNo > Len(lines)
       \/ tocPc = "caught"
    /\ tocPc' = "done"
    /\ UNCHANGED <<wikitext, lines, lineNo, sections, current_level_stack,
                   renVars, simVars, scoreVars, histVars, utilVars>>

TocNext == TocSplit \/ TocLoop \/ TocExcept \/ TocReturn
SpecToc == TocInit /\ [][TocNext]_vars

(***************************************************************************)
(* detect_renamed_sections on two title sets.                               *)
(***************************************************************************)
RenInit ==
    /\ prev_titles \in TitleSets /\ curr_titles \in TitleSets
    /\ renamed_sections = {} /\ renPc = "call"
    /\ rename_threshold = DefaultRenameThreshold
    /\ TocOff /\ SimOff /\ ScoreOff /\ HistOff /\ UtilOff

DetectRenamed ==
    /\ renPc = "call"
    /\ \E d \in detect_renamed_sections(prev_titles, curr_titles) : renamed_sections' = d
    /\ renPc' = "done"
    /\ UNCHANGED <<prev_titles, curr_titles, rename_threshold, tocVars, simVars, scoreVars, histVars, utilVars>>

RenNext == DetectRenamed
SpecRename == RenInit /\ [][RenNext]_vars

(***************************************************************************)
(* similarity on two titles.                                                *)
(***************************************************************************)
SimTitles ==
    TitleUniverse \cup {<<"a">>, <<"A">>, <<"a", "b", "c", "d">>, <<"A", "b", "b", "d">>}

SimInit ==
    /\ sim_a \in SimTitles /\ sim_b \in SimTitles
    /\ sim_score = None /\ simPc = "call"
    /\ TocOff /\ RenOff /\ ScoreOff /\ HistOff /\ UtilOff

\* lines 132-143
Similarity ==
    /\ simPc = "call"
    /\ sim_score' = Some(similarity(sim_a, sim_b))
    /\ simPc' = "done"
    /\ UNCHANGED <<sim_a, sim_b, tocVars, renVars, scoreVars, histVars, utilVars>>

SimNext == Similarity
SpecSimilarity == SimInit /\ [][SimNext]_vars

(***************************************************************************)
(* detect_renamed_sections on titles of one to four characters, whose        *)
(* scores above the threshold differ.                                        *)
(***************************************************************************)
MaxPoolTitles == 2     \* titles in each set

t_abcd == <<"a", "b", "c", "d">>
t_Abbd == <<"A", "b", "b", "d">>

PoolTitleSets == {S \in SUBSET SimTitles : Cardinality(S) <= MaxPoolTitles}

PoolInit ==
    /\ prev_titles \in PoolTitleSets /\ curr_titles \in PoolTitleSets
    /\ renamed_sections = {} /\ renPc = "call"
    /\ rename_threshold = DefaultRenameThreshold
    /\ TocOff /\ SimOff /\ ScoreOff /\ HistOff /\ UtilOff

SpecPool == PoolInit /\ [][RenNext]_vars

(***************************************************************************)
(* The sidebar slider "Rename Detection Sensitivity" (lines 658-673) and a  *)
(* call of detect_renamed_sections after it.                                *)
(***************************************************************************)
MaxSliderTitles == 2     \* titles in each set when the slider is moved

SliderTitleSets == {S \in SUBSET TitleUniverse : Cardinality(S) <= MaxSliderTitles}

SensInit ==
    /\ prev_titles \in SliderTitleSets /\ curr_titles \in SliderTitleSets
    /\ renamed_sections = {} /\ renPc = "ui"
    /\ rename_threshold = DefaultRenameThreshold
    /\ TocOff /\ SimOff /\ ScoreOff /\ HistOff /\ UtilOff

\* lines 659-673: the slider value is stored in the session state
SetRenameSensitivity ==
    /\ renPc = "ui"
    /\ \E v \in SliderValues : rename_threshold' = v
    /\ renPc' = "call"
    /\ UNCHANGED <<prev_titles, curr_titles, renamed_sections, tocVars, simVars, scoreVars, histVars, utilVars>>

SensNext == SetRenameSensitivity \/ DetectRenamed
SpecSensitivity == SensInit /\ [][SensNext]_vars

(***************************************************************************)
(* calculate_toc_change_significance.  The score is kept in half points     *)
(* (twice the Python float), so that (total*2 + hierarchy*3) / 2 stays an   *)
(* integer: 20 is the score 10, 10 is the score 5.  The summary is a record *)
(* of its text and of the three counts the text is formatted from.          *)
(***************************************************************************)
Summary(text, added, removed, changed) ==
    [text |-> text, added |-> added, removed |-> removed, changed |-> changed]

TitlesOf(secs) == {secs[i].title : i \in 1..Len(secs)}

(***************************************************************************)
(* The arguments of the scorer are Python values: None, a list, or a value  *)
(* of another type (a dict, a string, a number) that is truthy or falsy.  A *)
(* list holds section records as extract_toc builds them, and possibly      *)
(* records without "title" or "level", records whose title cannot be        *)
(* hashed, and items that are not dicts.                                    *)
(***************************************************************************)
PyNone == [kind |-> "None", items |-> <<>>, truthy |-> FALSE]
PyList(items) == [kind |-> "list", items |-> items, truthy |-> items # <<>>]
PyOther(truthy) == [kind |-> "other", items |-> <<>>, truthy |-> truthy]
\* prev_sections_data as the scorer receives it
PyOpt(o) == IF IsNone(o) THEN PyNone ELSE PyList(Val(o))

NotADict == [nondict |-> TRUE]
UnhashableTitle == [title |-> <<>>, level |-> 1, unhashable |-> TRUE]

\* lines 209 and 212: not x or not isinstance(x, list)
InvalidData(x) == ~x.truthy \/ x.kind # "list"

\* lines 217-218: isinstance(s, dict) and "title" in s
IsTitled(s) == "nondict" \notin DOMAIN s /\ "title" \in DOMAIN s
TitledItems(secs) == {i \in 1..Len(secs) : IsTitled(secs[i])}
TitleSet(secs) == {secs[i].title : i \in TitledItems(secs)}

\* line 217: adding a title that cannot be hashed to a set raises TypeError
RaisesTypeError(secs) == \E i \in TitledItems(secs) : "unhashable" \in DOMAIN secs[i]

\* a variant of line 221 that asks for both sets to be empty
EmptySectionDataBoth(current_set, previous_set) == current_set = {} /\ previous_set = {}

\* line 221
EmptySectionData(current_set, previous_set) == current_set = {} \/ previous_set = {}

\* lines 234-235: s.get("level", 0)
LevelOf(s) == IF "level" \in DOMAIN s THEN s.level ELSE 0

\* lines 234-235: {title: level}; a later section of the same title overwrites
LevelLookup(secs, title) ==
    LET last == CHOOSE i \in TitledItems(secs) :
                    /\ secs[i].title = title
                    /\ \A j \in TitledItems(secs) : j > i => secs[j].title # title
    IN  LevelOf(secs[last])

\* a variant of lines 237-240 that counts no level change
HierarchyChangesNone(current, prev, common_sections) == 0

\* lines 237-240
HierarchyChanges(current, prev, common_sections) ==
    Cardinality({t \in common_sections : LevelLookup(current, t) # LevelLookup(prev, t)})

\* a variant of line 244 without the cap
SignificanceScoreUncapped(total_changes, hierarchy_changes) ==
    total_changes * 2 + hierarchy_changes * 3

\* line 244, in half points
SignificanceScore(total_changes, hierarchy_changes) ==
    Min(20, total_changes * 2 + hierarchy_changes * 3)

\* lines 246-255
ChangeSummary(added, removed, hierarchy_changes) ==
    IF added + removed + hierarchy_changes = 0
    THEN Summary("Minor changes", 0, 0, 0)
    ELSE Summary("changes", added, removed, hierarchy_changes)

\* a score of 5 with this summary
Neutral(text) == [significance |-> 10, summary |-> Summary(text, 0, 0, 0)]

calculate_toc_change_significance(current, previous) ==
    IF previous.kind = "None"
    THEN [significance |-> 20, summary |-> Summary("Initial version", 0, 0, 0)]
    ELSE IF InvalidData(current) THEN Neutral("Invalid current sections data")
    ELSE IF InvalidData(previous) THEN Neutral("Invalid previous sections data")
    ELSE IF RaisesTypeError(current.items)
            \/ RaisesTypeError(previous.items)
    THEN Neutral("Error calculating significance")             \* lines 258-260
    ELSE LET current_set == TitleSet(current.items)
             previous_set == TitleSet(previous.items)
             added == current_set \ previous_set
             removed == previous_set \ current_set
             total_changes == Cardinality(added) + Cardinality(removed)
             hierarchy_changes ==
                 HierarchyChanges(current.items, previous.items,
                                  current_set \cap previous_set)
         IN  IF EmptySectionData(current_set, previous_set)
             THEN Neutral("Empty section data")
             ELSE [significance |-> SignificanceScore(total_changes, hierarchy_changes),
                   summary |-> ChangeSummary(Cardinality(added), Cardinality(removed),
                                             hierarchy_changes)]

(***************************************************************************)
(* The values the scorer is called on by itself: the outlines               *)
(* a^lo .. a^hi (titles "a", "aa", ...) in three level patterns, and the    *)
(* values that are not well-formed outlines.                                *)
(***************************************************************************)
MaxOutline == 8      \* sections of the longest outline given to the scorer

ScoreTitle(i) == Rep("a", i)
LevelPatterns == {"flat", "deep", "mixed"}
PatternLevel(pattern, i) ==
    CASE pattern = "flat" -> 1
      [] pattern = "deep" -> 2
      [] OTHER -> 1 + (i % 2)

RangeOutline(lo, hi, pattern) ==
    [k \in 1..(hi - lo + 1) |->
        [title |-> ScoreTitle(lo + k - 1), level |-> PatternLevel(pattern, lo + k - 1),
         raw_level |-> 1 + PatternLevel(pattern, lo + k - 1)]]

RangeOutlines ==
    {RangeOutline(lo, hi, pattern) :
        lo \in 1..MaxOutline, hi \in 1..MaxOutline, pattern \in LevelPatterns}
        \ {<<>>}

Sec(i, level) == [title |-> ScoreTitle(i), level |-> level, raw_level |-> level + 1]

OddLists ==
    {<<>>,
     <<NotADict>>,
     <<[level |-> 1]>>,                           \* a dict without "title"
     <<[title |-> ScoreTitle(1)]>>,               \* a dict without "level"
     <<UnhashableTitle>>,
     <<Sec(1, 1), [level |-> 1]>>,
     <<Sec(1, 1), NotADict>>,
     <<Sec(1, 1), UnhashableTitle>>,
     <<Sec(1, 1), Sec(1, 2)>>,                    \* one title twice
     <<Sec(1, 2), Sec(1, 1)>>}

ScoreValues ==
    {PyNone, PyOther(TRUE), PyOther(FALSE)}
        \cup {PyList(l) : l \in RangeOutlines \cup OddLists}

ScoreInit ==
    /\ score_current \in ScoreValues /\ score_previous \in ScoreValues
    /\ score_result = <<>> /\ scorePc = "call"
    /\ TocOff /\ RenOff /\ SimOff /\ HistOff /\ UtilOff

\* lines 200-260
CalculateSignificance ==
    /\ scorePc = "call"
    /\ score_result' = calculate_toc_change_significance(score_current, score_previous)
    /\ scorePc' = "done"
    /\ UNCHANGED <<score_current, score_previous, tocVars, renVars, simVars, histVars, utilVars>>

ScoreNext == CalculateSignificance
SpecScore == ScoreInit /\ [][ScoreNext]_vars

(***************************************************************************)
(* process_revision_history                                                 *)
(***************************************************************************)
StartYear == 2010                 \* the default of start_year
EndYear == StartYear + 1

\* lines 289-291: the year of a timestamp; a timestamp is [year, day, time]
YearOf(timestamp) == timestamp.year

\* a variant of line 295 that lets the year after end_year through
OutOfRangeLate(year, start, end) == year < start \/ year > end + 1

\* line 295
OutOfRange(year, start, end) == year < start \/ year > end

\* line 304: `not content` holds of None and of the empty string
NotContent(content) == IsNone(content) \/ Val(content) = <<>>

\* lines 321 and 327-328: str(year), or the date without the time of day
RevisionKey(m, timestamp) ==
    IF m = "yearly" THEN [kind |-> "year", year |-> timestamp.year, day |-> 0]
    ELSE [kind |-> "date", year |-> timestamp.year, day |-> timestamp.day]

\* a variant of lines 316-325 that asks for a score above the threshold
IncludeRevisionAbove(m, year, years, previous, significance, threshold) ==
    IF m = "yearly" THEN year \notin years
    ELSE IsNone(previous) \/ significance > 2 * threshold

\* lines 316-325: the decision to include the revision
IncludeRevision(m, year, years, previous, significance, threshold) ==
    IF m = "yearly" THEN year \notin years
    ELSE IsNone(previous) \/ significance >= 2 * threshold

\* lines 341-343
RemovedSections(previous, current, renamed) ==
    IF IsNone(previous) THEN {}
    ELSE (Val(previous) \ current) \ DictValues(renamed)

\* a variant of lines 346-353 that leaves out the test of line 348
MarkSectionUntested(section, previous, renamed) ==
    LET isRenamed == DictHas(renamed, section.title) IN
    [title |-> section.title, level |-> section.level, raw_level |-> section.raw_level,
     isNew |-> ~isRenamed,
     isRenamed |-> isRenamed,
     previousTitle |-> IF isRenamed THEN Some(DictGet(renamed, section.title)) ELSE None]

\* a variant of lines 346-353 that marks a renamed section as new as well
MarkSectionBoth(section, previous, renamed) ==
    LET fresh == IsNone(previous) \/ section.title \notin Val(previous)
        isRenamed == fresh /\ DictHas(renamed, section.title)
    IN  [title |-> section.title, level |-> section.level, raw_level |-> section.raw_level,
         isNew |-> fresh,
         isRenamed |-> isRenamed,
         previousTitle |-> IF isRenamed THEN Some(DictGet(renamed, section.title)) ELSE None]

\* lines 346-353: the marks of one section
MarkSection(section, previous, renamed) ==
    LET fresh == IsNone(previous) \/ section.title \notin Val(previous)
        isRenamed == fresh /\ DictHas(renamed, section.title)
    IN  [title |-> section.title, level |-> section.level, raw_level |-> section.raw_level,
         isNew |-> fresh /\ ~isRenamed,
         isRenamed |-> isRenamed,
         previousTitle |-> IF isRenamed THEN Some(DictGet(renamed, section.title)) ELSE None]

MarkSections(secs, previous, renamed) ==
    [i \in 1..Len(secs) |-> MarkSection(secs[i], previous, renamed)]

\* line 365: toc_revisions[revision_key] = data; a key already present keeps its place
DictPut(toc, key, data) ==
    IF \E i \in 1..Len(toc) : toc[i].key = key
    THEN [i \in 1..Len(toc) |-> IF toc[i].key = key THEN [key |-> key, data |-> data]
                                ELSE toc[i]]
    ELSE Append(toc, [key |-> key, data |-> data])

\* a variant of lines 367-369 that updates `previous` on every iteration
NextPreviousAlways(include_revision, new, old) == Some(new)

\* lines 367-369: what `previous` becomes after an iteration
NextPrevious(include_revision, new, old) == IF include_revision THEN Some(new) ELSE old

\* a variant of line 288 that iterates the list as it is
ReversedNot(revs, i) == revs[i]

\* line 288: the pos-th revision of reversed(revisions)
Reversed(revs, i) == revs[Len(revs) - i + 1]

\* the texts get_revision_content returns in the model
text_plain == <<"a">>
text_0 == Heading(2, t_ab)
text_1 == JoinLines(<<Heading(2, t_ab), Heading(3, t_c)>>)
text_2 == JoinLines(<<Heading(2, t_AB), Heading(2, t_c), Heading(2, t_abc)>>)
text_3 == JoinLines(<<Heading(2, t_ab), Heading(2, t_Ab)>>)
Contents ==
    {None, Some(<<>>), Some(text_plain), Some(text_0), Some(text_1), Some(text_2),
     Some(text_3)}

\* the texts among them
RevisionListContents == {Val(c) : c \in Contents \ {None}}

\* the timestamps of the model, and the revision lists: newest first, ids growing in time
Timestamps ==
    {[year |-> y, day |-> 1, time |-> 1] : y \in (StartYear - 1)..(EndYear + 1)}
        \cup {[year |-> StartYear, day |-> 2, time |-> 1],
              [year |-> StartYear, day |-> 2, time |-> 2]}

Before(t, u) ==
    \/ t.year < u.year
    \/ t.year = u.year /\ t.day < u.day
    \/ t.year = u.year /\ t.day = u.day /\ t.time < u.time

RevisionLists ==
    UNION {
        {[i \in 1..n |-> [timestamp |-> ts[i], revid |-> n - i + 1, content |-> cs[i]]] :
            ts \in {q \in [1..n -> Timestamps] : \A i \in 1..(n - 1) : Before(q[i + 1], q[i])},
            cs \in [1..n -> Contents]}
        : n \in 0..MaxRevs}

\* the calls of process_revision_history (lines 686-694): yearly with threshold 5
Calls == {<<"yearly", 5>>, <<"significant", 2>>, <<"significant", 5>>}

Init ==
    /\ revisions \in RevisionLists                        \* line 273
    /\ \E c \in Calls : mode = c[1] /\ significance_threshold = c[2]
    /\ start_year = StartYear /\ end_year = EndYear
    /\ pos = 1
    /\ toc_revisions = <<>> /\ years_processed = {}       \* lines 280-281
    /\ previous_sections = None /\ prev_sections_data = None
    /\ significant_revisions = <<>>
    /\ fetched = <<>>
    /\ histPc = "loop"
    /\ TocOff /\ RenOff /\ SimOff /\ ScoreOff /\ UtilOff

\* lines 288-369: one iteration of the for loop
ProcessRevision ==
    /\ histPc = "loop" /\ pos <= Len(revisions)
    /\ pos' = pos + 1
    /\ LET rev == Reversed(revisions, pos)
           timestamp == rev.timestamp
           year == YearOf(timestamp)
           revision_id == rev.revid
       IN
       IF OutOfRange(year, start_year, end_year)
          \/ (mode = "yearly" /\ year \in years_processed)
       THEN UNCHANGED <<toc_revisions, years_processed, previous_sections,
                        prev_sections_data, significant_revisions, fetched>>
       ELSE IF NotContent(rev.content)
       THEN UNCHANGED <<toc_revisions, years_processed, previous_sections,
                        prev_sections_data, significant_revisions, fetched>>
       ELSE
         LET secs == extract_toc(Val(rev.content))
             current_sections == TitlesOf(secs)
             sig == calculate_toc_change_significance(PyList(secs),
                                                      PyOpt(prev_sections_data))
             include_revision ==
                 IncludeRevision(mode, year, years_processed, previous_sections,
                                 sig.significance, significance_threshold)
             revision_key == RevisionKey(mode, timestamp)
         IN
         /\ fetched' = Append(fetched, revision_id)
         /\ years_processed' =
                IF mode = "yearly" /\ include_revision
                THEN years_processed \cup {year} ELSE years_processed
         /\ significant_revisions' =
                IF mode # "yearly" /\ include_revision
                THEN Append(significant_revisions,
                            [date |-> revision_key, significance |-> sig.significance,
                             summary |-> sig.summary, revid |-> revision_id])
                ELSE significant_revisions
         /\ \E renamed \in (IF IsNone(previous_sections) THEN {{}}
                            ELSE detect_renamed_sections(Val(previous_sections),
                                                         current_sections)) :
              LET marked == MarkSections(secs, previous_sections, renamed)
                  data == [sections |-> marked,
                           removed |-> RemovedSections(previous_sections,
                                                       current_sections, renamed),
                           renamed |-> renamed,
                           timestamp |-> timestamp,
                           revid |-> revision_id,
                           significance |-> sig.significance,
                           change_summary |-> sig.summary]
              IN
              /\ toc_revisions' =
                     IF include_revision THEN DictPut(toc_revisions, revision_key, data)
                     ELSE toc_revisions
              /\ previous_sections' =
                     NextPrevious(include_revision, current_sections, previous_sections)
              /\ prev_sections_data' =
                     NextPrevious(include_revision, marked, prev_sections_data)
    /\ UNCHANGED <<revisions, mode, significance_threshold, start_year, end_year, histPc,
                   tocVars, renVars, simVars, scoreVars, utilVars>>

\* lines 371-377: the "_metadata" entry of significant mode, and the return
Finish ==
    /\ histPc = "loop" /\ pos > Len(revisions)
    /\ toc_revisions' =
           IF mode = "significant"
           THEN Append(toc_revisions,
                       [key |-> [kind |-> "_metadata", year |-> 0, day |-> 0],
                        data |-> [significant_revisions |-> significant_revisions]])
           ELSE toc_revisions
    /\ histPc' = "done"
    /\ UNCHANGED <<revisions, mode, significance_threshold, start_year, end_year, pos,
                   years_processed, previous_sections, prev_sections_data,
                   significant_revisions, fetched, tocVars, renVars, simVars, scoreVars, utilVars>>

Next == ProcessRevision \/ Finish
Spec == Init /\ [][Next]_vars

(***************************************************************************)
(* process_revision_history on a list that get_page_history returns in      *)
(* either order: newest first as rvdir=older asks for, or oldest first.     *)
(***************************************************************************)
ReverseList(l) == [i \in 1..Len(l) |-> l[Len(l) - i + 1]]
OldestFirstLists == {ReverseList(l) : l \in RevisionLists}

InitAnyOrder ==
    /\ revisions \in RevisionLists \cup OldestFirstLists
    /\ \E c \in Calls : mode = c[1] /\ significance_threshold = c[2]
    /\ start_year = StartYear /\ end_year = EndYear
    /\ pos = 1
    /\ toc_revisions = <<>> /\ years_processed = {}
    /\ previous_sections = None /\ prev_sections_data = None
    /\ significant_revisions = <<>>
    /\ fetched = <<>>
    /\ histPc = "loop"
    /\ TocOff /\ RenOff /\ SimOff /\ ScoreOff /\ UtilOff

SpecAnyOrder == InitAnyOrder /\ [][Next]_vars

(***************************************************************************)
(* get_toc_history of src/utils/wiki-utils.py.  A revision's text is given   *)
(* as the headings mwparserfromhell finds in it, each with the text between  *)
(* its markers and its marker count.  toc_history is keyed by str(year);     *)
(* for years of four digits the order of the strings is the order of the     *)
(* numbers, so the keys are held as numbers.  A section without the key      *)
(* "isNew" is a record with isNew = FALSE.                                   *)
(***************************************************************************)
MaxUtilRevs == 3     \* revisions returned by get_page_history

UtilYears == StartYear..(StartYear + 2)

ParsedHeading(title, level) == [title |-> title, level |-> level]

\* the headings of the revision texts of the model
UtilContents ==
    {<<>>,
     <<ParsedHeading(<<" ">> \o t_ab \o <<" ">>, 2)>>,
     <<ParsedHeading(t_ab, 2), ParsedHeading(t_c, 2)>>,
     <<ParsedHeading(t_c, 3)>>}

\* lines 27-36: rvstart is the end date and rvend the start date, so the API lists
\* the revisions from the newest to the oldest
UtilRevisionLists ==
    UNION {
        {[i \in 1..n |-> [timestamp |-> [year |-> ys[i], day |-> 1, time |-> n - i + 1],
                           content |-> cs[i]]] :
            ys \in {q \in [1..n -> UtilYears] : \A i \in 1..(n - 1) : q[i + 1] <= q[i]},
            cs \in [1..n -> UtilContents]}
        : n \in 0..MaxUtilRevs}

\* lines 63-87: extract_toc of the utils module
wiki_extract_toc(headings) ==
    [i \in 1..Len(headings) |->
        [title |-> Strip(headings[i].title), level |-> headings[i].level, isNew |-> FALSE]]

\* line 117: the entry of max(toc_history.keys())
MaxYearEntry(hist) ==
    hist[CHOOSE i \in 1..Len(hist) : \A j \in 1..Len(hist) : hist[j].year <= hist[i].year]

\* lines 116-121: the sections marked against the entry of the greatest year
MarkNewSections(secs, hist) ==
    IF hist = <<>> THEN secs
    ELSE LET prev_year_sections == TitlesOf(MaxYearEntry(hist).sections)
         IN  [i \in 1..Len(secs) |->
                 [secs[i] EXCEPT !.isNew = secs[i].title \notin prev_year_sections]]

\* line 126: dict(sorted(toc_history.items()))
SortedByYear(hist) ==
    [i \in 1..Len(hist) |->
        hist[CHOOSE j \in 1..Len(hist) :
                 Cardinality({k \in 1..Len(hist) : hist[k].year < hist[j].year}) = i - 1]]

UtilInit ==
    /\ util_revisions \in UtilRevisionLists               \* line 102
    /\ util_pos = 1
    /\ toc_history = <<>> /\ processed_years = {}         \* lines 105-106
    /\ util_result = None /\ utilPc = "loop"
    /\ TocOff /\ RenOff /\ SimOff /\ ScoreOff /\ HistOff

\* lines 108-124: one iteration of the for loop
GetTocHistoryStep ==
    /\ utilPc = "loop" /\ util_pos <= Len(util_revisions)
    /\ util_pos' = util_pos + 1
    /\ LET rev == util_revisions[util_pos]
           year == YearOf(rev.timestamp)
       IN  IF year \in processed_years
           THEN UNCHANGED <<toc_history, processed_years>>
           ELSE /\ toc_history' =
                      Append(toc_history,
                             [year |-> year,
                              sections |-> MarkNewSections(wiki_extract_toc(rev.content),
                                                           toc_history)])
                /\ processed_years' = processed_years \cup {year}
    /\ UNCHANGED <<util_revisions, util_result, utilPc,
                   tocVars, renVars, simVars, scoreVars, histVars>>

\* line 126
GetTocHistoryReturn ==
    /\ utilPc = "loop" /\ util_pos > Len(util_revisions)
    /\ util_result' = Some(SortedByYear(toc_history))
    /\ utilPc' = "done"
    /\ UNCHANGED <<util_revisions, util_pos, toc_history, processed_years,
                   tocVars, renVars, simVars, scoreVars, histVars>>

UtilNext == GetTocHistoryStep \/ GetTocHistoryReturn
SpecUtils == UtilInit /\ [][UtilNext]_vars

(***************************************************************************)
(* Definitions shared by the properties below.                              *)
(***************************************************************************)
\* the revision the loop of process_revision_history is about to handle
AtRevision == histPc = "loop" /\ pos <= Len(revisions)
CurrentRev == Reversed(revisions, pos)
RevOf(revid) == CHOOSE r \in {revisions[i] : i \in 1..Len(revisions)} : r.revid = revid

\* the entries of the History that are snapshots
Snapshots == SelectSeq(toc_revisions, LAMBDA e : e.key.kind # "_metadata")

\* the iteration being taken retained its revision
Retains ==
    \/ significant_revisions' # significant_revisions
    \/ years_processed' # years_processed

\* the snapshot an iteration that retains has just stored
StoredData ==
    LET key == RevisionKey(mode, CurrentRev.timestamp)
        i == CHOOSE j \in 1..Len(toc_revisions') : toc_revisions'[j].key = key
    IN  toc_revisions'[i].data

\* the outline of the last revision whose content was fetched and parsed
LastProcessedOutline ==
    IF fetched = <<>> THEN None
    ELSE Some(extract_toc(Val(RevOf(fetched[Len(fetched)]).content)))

\* the outline of the snapshot stored last (revision ids grow with time)
LastRetainedOutline ==
    IF Snapshots = <<>> THEN None
    ELSE LET i == CHOOSE j \in 1..Len(Snapshots) :
                      \A k \in 1..Len(Snapshots) :
                          Snapshots[k].data.revid <= Snapshots[j].data.revid
         IN  Some(Snapshots[i].data.sections)

(***************************************************************************)
(* C1: in process_revision_history a revision whose content is absent or    *)
(* whose parsed outline is empty is skipped entirely: it adds no entry to   *)
(* the History and leaves the previous title set and previous outline       *)
(* unchanged.                                                               *)
(***************************************************************************)
AbsentOrEmptyOutline(content) ==
    NotContent(content) \/ extract_toc(Val(content)) = <<>>

C1_AbsentOrEmptyIsSkipped ==
    [][(AtRevision /\ AbsentOrEmptyOutline(CurrentRev.content))
         => UNCHANGED <<toc_revisions, previous_sections, prev_sections_data>>]_vars

(***************************************************************************)
(* C2: in both modes the significance and summary stored on a retained      *)
(* snapshot are computed against the immediately preceding processed        *)
(* revision (the last one fetched and parsed), retained or not.             *)
(***************************************************************************)
ScoredAgainst(outline) ==
    LET sig == calculate_toc_change_significance(
                   PyList(extract_toc(Val(CurrentRev.content))), PyOpt(outline))
    IN  /\ StoredData.significance = sig.significance
        /\ StoredData.change_summary = sig.summary

OneToOne(d) ==
    \A e1, e2 \in d : (e1.old = e2.old) <=> (e1.new = e2.new)

C3_RenamedMapOneToOne == renPc = "done" => OneToOne(renamed_sections)

(***************************************************************************)
(* C4: with exact = previous \cap current, removed = previous - current -   *)
(* values and added = current - previous - keys, each side is the disjoint  *)
(* union of its three groups, every value lies in previous - exact and      *)
(* every key in current - exact.                                            *)
(***************************************************************************)
PairwiseDisjoint(A, B, C) == A \cap B = {} /\ A \cap C = {} /\ B \cap C = {}

ResolverPartition(prev, curr, d) ==
    LET exact == prev \cap curr
        removed == (prev \ curr) \ DictValues(d)
        added == (curr \ prev) \ DictKeys(d)
    IN  /\ prev = exact \cup DictValues(d) \cup removed
        /\ curr = exact \cup DictKeys(d) \cup added
        /\ PairwiseDisjoint(exact, DictValues(d), removed)
        /\ PairwiseDisjoint(exact, DictKeys(d), added)
        /\ DictValues(d) \subseteq prev \ exact
        /\ DictKeys(d) \subseteq curr \ exact

C4_ResolverPartition ==
    renPc = "done" => ResolverPartition(prev_titles, curr_titles, renamed_sections)

\* a result with an exact match, a rename, a removal and an addition
C4_Witness ==
    /\ renPc = "done"
    /\ prev_titles \cap curr_titles # {}
    /\ renamed_sections # {}
    /\ (prev_titles \ curr_titles) \ DictValues(renamed_sections) # {}
    /\ (curr_titles \ prev_titles) \ DictKeys(renamed_sections) # {}

(***************************************************************************)
(* C5: every section of the outline returned by extract_toc has level >= 1, *)
(* and of two consecutive sections the later one's level is at most the     *)
(* earlier one's level + 1.                                                 *)
(***************************************************************************)
LevelsStepByOne(secs) ==
    /\ \A i \in 1..Len(secs) : secs[i].level >= 1
    /\ \A i \in 2..Len(secs) : secs[i].level <= secs[i - 1].level + 1

C5_LevelsStepByOne == tocPc = "done" => LevelsStepByOne(sections)

(***************************************************************************)
(* C6: the first section of a non-empty outline returned by extract_toc has *)
(* level 1, and every section's level is 1 + the number of its ancestors,   *)
(* the parent being the nearest preceding section of strictly smaller       *)
(* level.                                                                   *)
(***************************************************************************)
\* the index of the parent of section i, 0 when it has none
ParentOf(secs, i) ==
    LET before == {j \in 1..(i - 1) : secs[j].level < secs[i].level} IN
    IF before = {} THEN 0 ELSE CHOOSE j \in before : \A k \in before : k <= j

RECURSIVE AncestorCount(_, _)
AncestorCount(secs, i) ==
    IF ParentOf(secs, i) = 0 THEN 0 ELSE 1 + AncestorCount(secs, ParentOf(secs, i))

LevelIsDepth(secs) ==
    /\ secs # <<>> => secs[1].level = 1
    /\ \A i \in 1..Len(secs) : secs[i].level = 1 + AncestorCount(secs, i)

C6_LevelIsDepth == tocPc = "done" => LevelIsDepth(sections)

(***************************************************************************)
(* C7: extract_toc gives each heading its level by the stack rule: every    *)
(* stack entry >= the heading's raw level is popped, the raw level is       *)
(* pushed, and the level is the resulting stack size; so a raw level above  *)
(* the top gets the previous size + 1 and a raw level <= every entry gets   *)
(* level 1 (raw depths 2,3,2 give levels 1,2,1; raw depths 4,2 give 1,1).   *)
(***************************************************************************)
\* the loop of extract_toc is at a line that qualifies as a heading
AtHeading == tocPc = "loop" /\ lineNo <= Len(lines) /\ IsHeading(Strip(lines[lineNo]))

StackRule ==
    LET line == Strip(lines[lineNo])
        raw == RawLevel(line)
        kept == SelectSeq(current_level_stack, LAMBDA x : x < raw)
    IN  /\ current_level_stack' = Append(kept, raw)
        /\ HeadingTitle(line) # <<>> =>
              /\ Len(sections') = Len(sections) + 1
              /\ sections'[Len(sections')].level = Len(kept) + 1
              /\ sections'[Len(sections')].raw_level = raw
        /\ (current_level_stack # <<>>
              /\ raw > current_level_stack[Len(current_level_stack)])
             => Len(current_level_stack') = Len(current_level_stack) + 1
        /\ (\A k \in 1..Len(current_level_stack) : raw <= current_level_stack[k])
             => Len(current_level_stack') = 1

LevelsOf(secs) == [i \in 1..Len(secs) |-> secs[i].level]
text_232 == JoinLines(<<Heading(2, <<"a">>), Heading(3, <<"a">>), Heading(2, <<"a">>)>>)
text_42 == JoinLines(<<Heading(4, <<"a">>), Heading(2, <<"a">>)>>)

C7_StackRule ==
    /\ [][AtHeading => StackRule]_vars
    /\ []((tocPc = "done" /\ wikitext = text_232) => LevelsOf(sections) = <<1, 2, 1>>)
    /\ []((tocPc = "done" /\ wikitext = text_42) => LevelsOf(sections) = <<1, 1>>)

\* the first scenario parsed to its end, the last heading having popped the stack
C7_Witness ==
    /\ tocPc = "done" /\ wikitext = text_232
    /\ LevelsOf(sections) = <<1, 2, 1>>
    /\ current_level_stack = <<2>>

(***************************************************************************)
(* C8: in the History, for every snapshot after the first, the values of    *)
(* its 'renamed' map are titles of the snapshot immediately before it, and  *)
(* its 'removed' set is (titles of that snapshot) - (its own titles) -      *)
(* (values of its 'renamed' map).                                           *)
(***************************************************************************)
DiffedAgainst(data, before) ==
    /\ DictValues(data.renamed) \subseteq TitlesOf(before.sections)
    /\ data.removed =
           (TitlesOf(before.sections) \ TitlesOf(data.sections)) \ DictValues(data.renamed)

C8_DiffedAgainstEntryBefore ==
    histPc = "done" =>
        \A i \in 2..Len(Snapshots) : DiffedAgainst(Snapshots[i].data, Snapshots[i - 1].data)

(***************************************************************************)
(* C9: in yearly mode at most one snapshot is retained per calendar year,   *)
(* only for years within [start_year, end_year], the snapshot of a year is  *)
(* the first revision of that year in processing order, and every later     *)
(* revision of a retained year is skipped without changing any state.       *)
(***************************************************************************)
\* the revisions the loop has gone through, oldest first
Processed == [i \in 1..(pos - 1) |-> Reversed(revisions, i)]

OnePerYearInRange ==
    /\ \A i, j \in 1..Len(Snapshots) :
           YearOf(Snapshots[i].data.timestamp) = YearOf(Snapshots[j].data.timestamp) => i = j
    /\ \A i \in 1..Len(Snapshots) :
           /\ YearOf(Snapshots[i].data.timestamp) >= start_year
           /\ YearOf(Snapshots[i].data.timestamp) <= end_year
           /\ Snapshots[i].key = [kind |-> "year", day |-> 0,
                                  year |-> YearOf(Snapshots[i].data.timestamp)]
    /\ Len(Snapshots) = Cardinality(years_processed)

\* the snapshot of a year holds the first revision of that year, counting only the
\* revisions with content when withContent is set
FirstOfYear(withContent) ==
    \A i \in 1..Len(Snapshots) :
        LET year == YearOf(Snapshots[i].data.timestamp)
            ofYear == {k \in 1..Len(Processed) :
                          YearOf(Processed[k].timestamp) = year
                          /\ (withContent => ~NotContent(Processed[k].content))}
        IN  /\ ofYear # {}
            /\ Snapshots[i].data.revid =
                   Processed[CHOOSE k \in ofYear : \A m \in ofYear : k <= m].revid

\* a retained year has a snapshot as soon as a revision of it has content
EveryUsableYearRetained ==
    \A k \in 1..Len(Processed) :
        (~OutOfRange(YearOf(Processed[k].timestamp), start_year, end_year)
             /\ ~NotContent(Processed[k].content))
          => \E i \in 1..Len(Snapshots) :
                 YearOf(Snapshots[i].data.timestamp) = YearOf(Processed[k].timestamp)

LaterOfYearSkipped ==
    (AtRevision /\ YearOf(CurrentRev.timestamp) \in years_processed)
        => UNCHANGED <<toc_revisions, years_processed, previous_sections,
                       prev_sections_data, significant_revisions, fetched>>

C9_YearlyFirstOfYear ==
    /\ [](mode = "yearly" => (OnePerYearInRange /\ FirstOfYear(FALSE)))
    /\ [][mode = "yearly" => LaterOfYearSkipped]_vars

\* C9 as amended: the snapshot of a year is the first revision of that year whose
\* content could be fetched; a revision without content leaves its year open
C9_YearlyFirstFetchedOfYear ==
    /\ [](mode = "yearly" =>
            /\ OnePerYearInRange
            /\ FirstOfYear(TRUE)
            /\ EveryUsableYearRetained)
    /\ [][mode = "yearly" => LaterOfYearSkipped]_vars

\* three revisions of one year: the first has no content, the second is retained, the
\* third is skipped
C9_Witness ==
    /\ mode = "yearly" /\ histPc = "done" /\ Len(revisions) = 3
    /\ \A i \in 1..3 : YearOf(revisions[i].timestamp) = start_year
    /\ NotContent(Reversed(revisions, 1).content)
    /\ ~NotContent(Reversed(revisions, 2).content)
    /\ ~NotContent(Reversed(revisions, 3).content)
    /\ Len(toc_revisions) = 1
    /\ toc_revisions[1].data.revid = Reversed(revisions, 2).revid

(***************************************************************************)
(* C10: in significant mode a processed revision is retained if and only if *)
(* it is the very first one processed or its significance score is >=       *)
(* significance_threshold.                                                  *)
(***************************************************************************)
\* the iteration being taken fetched and parsed its revision
Processes == fetched' # fetched

\* the score of the revision at hand, in half points
CurrentScore ==
    calculate_toc_change_significance(PyList(extract_toc(Val(CurrentRev.content))),
                                      PyOpt(LastRetainedOutline)).significance

C10_RetainedIffFirstOrSignificant ==
    [][(mode = "significant" /\ AtRevision /\ Processes)
         => (Retains <=> (fetched = <<>> \/ CurrentScore >= 2 * significance_threshold))]_vars

\* three revisions processed: the second scored below the threshold and was dropped, the
\* third scored exactly the threshold and was retained
C10_Witness ==
    /\ mode = "significant"
    /\ Len(fetched) = 3 /\ Len(significant_revisions) = 2
    /\ significant_revisions[2].revid = fetched[3]
    /\ significant_revisions[2].significance = 2 * significance_threshold

(***************************************************************************)
(* C11: whether the revision list is supplied oldest first or newest first, *)
(* process_revision_history processes the revisions in oldest-to-newest     *)
(* timestamp order, so every retained snapshot is diffed against a          *)
(* chronologically earlier one.                                             *)
(***************************************************************************)
ProcessedOldestFirst ==
    \A i, j \in 1..Len(Processed) :
        i < j => Before(Processed[i].timestamp, Processed[j].timestamp)

RetainedAfterEarlier ==
    (AtRevision /\ Retains)
        => \A k \in 1..Len(Snapshots) :
               Before(Snapshots[k].data.timestamp, CurrentRev.timestamp)

IsSnapshotKey(key) == key.kind \in {"year", "date"}

KeyBefore(k1, k2) == k1.year < k2.year \/ (k1.year = k2.year /\ k1.day < k2.day)

\* the position in the processing order of the revision an entry holds
ProcessedAt(entry) == CHOOSE k \in 1..Len(Processed) : Processed[k].revid = entry.data.revid

KeysIncrease(entries) ==
    \A i \in 1..(Len(entries) - 1) :
        /\ KeyBefore(entries[i].key, entries[i + 1].key)
        /\ ProcessedAt(entries[i]) < ProcessedAt(entries[i + 1])

C12_KeysIncrease ==
    histPc = "done" =>
        /\ \A i \in 1..Len(toc_revisions) : IsSnapshotKey(toc_revisions[i].key)
        /\ KeysIncrease(toc_revisions)

\* C12 as amended: the keys other than "_metadata", which significant mode appends as the
\* last key of the History
C12_SnapshotKeysIncrease ==
    /\ histPc # "off" => KeysIncrease(Snapshots)
    /\ histPc = "done" =>
          /\ \A i \in 1..(Len(toc_revisions) - 1) : IsSnapshotKey(toc_revisions[i].key)
          /\ mode = "yearly" => Snapshots = toc_revisions
          /\ mode = "significant" =>
                /\ toc_revisions # <<>>
                /\ toc_revisions[Len(toc_revisions)].key.kind = "_metadata"

\* a History of significant mode with two snapshots, one of them stored twice
C12_Witness ==
    /\ histPc = "done" /\ mode = "significant"
    /\ Len(Snapshots) = 2 /\ Len(significant_revisions) = 3
    /\ Len(toc_revisions) = 3

(***************************************************************************)
(* C13: for every non-empty title a, of any length including 1 and 2        *)
(* characters, similarity(a, a) is exactly 1.                               *)
(***************************************************************************)
IsOne(score) == score.num = score.den

C13_SimilarityOfEqualIsOne ==
    (simPc = "done" /\ sim_a = sim_b) => IsOne(Val(sim_score))

(***************************************************************************)
(* C14: for all inputs of calculate_toc_change_significance, including      *)
(* None, empty, non-list and title-less section data, the significance      *)
(* returned is between 0 and 10.                                            *)
(***************************************************************************)
C14_SignificanceBounds ==
    scorePc = "done" => (score_result.significance >= 0 /\ score_result.significance <= 20)

\* two outlines of the longest size with every level changed: 3 * MaxOutline / 2 is above
\* 10 and the score returned is 10
C14_Witness ==
    /\ scorePc = "done"
    /\ Len(score_current.items) = MaxOutline /\ Len(score_previous.items) = MaxOutline
    /\ score_result.summary.changed = MaxOutline
    /\ 3 * MaxOutline > 20
    /\ score_result.significance = 20

(***************************************************************************)
(* C15: when previous_sections is None, calculate_toc_change_significance   *)
(* returns significance 10 and the summary "Initial version" for any        *)
(* current outline; so the first retained snapshot of every History carries *)
(* significance 10 and the summary "Initial version".                       *)
(***************************************************************************)
IsInitialVersion(significance, summary) ==
    significance = 20 /\ summary.text = "Initial version"

C15_FirstSnapshotIsInitialVersion ==
    /\ \A r \in RevisionListContents :
           LET sig == calculate_toc_change_significance(PyList(extract_toc(r)), PyNone)
           IN  IsInitialVersion(sig.significance, sig.summary)
    /\ Snapshots # <<>> =>
           IsInitialVersion(Snapshots[1].data.significance,
                            Snapshots[1].data.change_summary)

(***************************************************************************)
(* C16: for two well-formed non-empty outlines the significance is          *)
(* min(10, (2 * (|current - previous| + |previous - current|)               *)
(*          + 3 * hierarchyChanges) / 2), hierarchyChanges being the number *)
(* of titles present in both outlines whose level differs; two outlines     *)
(* with the same titles and levels score 0.  (A title that occurs once in   *)
(* an outline has one level; the formula is stated for such outlines, the   *)
(* score 0 for any two equal outlines.)                                     *)
(***************************************************************************)
\* a non-empty list of section records with a title and a level
IsOutline(x) ==
    /\ x.kind = "list" /\ x.items # <<>>
    /\ \A i \in 1..Len(x.items) :
           /\ DOMAIN x.items[i] = {"title", "level", "raw_level"}
           /\ x.items[i].title # <<>>

TitlesOccurOnce(x) ==
    \A i, j \in 1..Len(x.items) : x.items[i].title = x.items[j].title => i = j

\* titles that both outlines hold, at different levels
LevelDiffers(current, previous) ==
    {t \in TitlesOf(current) \cap TitlesOf(previous) :
        \E i \in 1..Len(current), j \in 1..Len(previous) :
            /\ current[i].title = t /\ previous[j].title = t
            /\ current[i].level # previous[j].level}

\* twice the score of the claim
ClaimedScore(current, previous) ==
    LET added == TitlesOf(current) \ TitlesOf(previous)
        removed == TitlesOf(previous) \ TitlesOf(current)
        twice == 2 * (Cardinality(added) + Cardinality(removed))
                     + 3 * Cardinality(LevelDiffers(current, previous))
    IN  IF twice > 20 THEN 20 ELSE twice

Malformed(x) ==
    \/ x.kind # "list"
    \/ x.items = <<>>
    \/ \A i \in 1..Len(x.items) : ~IsTitled(x.items[i])

NeutralSummaries ==
    {"Invalid current sections data", "Invalid previous sections data",
     "Empty section data", "Error calculating significance"}

C17_MalformedIsNeutral ==
    (scorePc = "done" /\ score_previous # PyNone
        /\ (Malformed(score_current) \/ Malformed(score_previous))) =>
        /\ score_result.significance = 10
        /\ score_result.summary.text \in NeutralSummaries

\* a well-formed previous outline and a current list whose only record has no title
C17_Witness ==
    /\ scorePc = "done" /\ IsOutline(score_previous)
    /\ score_current = PyList(<<[level |-> 1]>>)
    /\ score_result = Neutral("Empty section data")

(***************************************************************************)
(* C18: the similarity-rename threshold is a configuration value (default   *)
(* 0.65) passed into the resolver: the similarity renames that              *)
(* detect_renamed_sections records are determined by the configured         *)
(* threshold, so changing the rename-sensitivity setting changes which      *)
(* title pairs are recorded as renames.                                     *)
(***************************************************************************)
\* score > twentieths / 20
Exceeds(score, twentieths) == 20 * score.num > twentieths * score.den

\* the renames recorded by similarity score above the configured threshold, and no old
\* title left as removed scores above it with a new title left as added
RenamesFollowThreshold(prev, curr, d, twentieths) ==
    /\ \A e \in d :
           ~CaseDiffers(e.old, e.new) => Exceeds(similarity(e.old, e.new), twentieths)
    /\ \A o \in (prev \ curr) \ DictValues(d), n \in (curr \ prev) \ DictKeys(d) :
           ~Exceeds(similarity(o, n), twentieths)

C18_ThresholdIsConfigured ==
    renPc = "done" =>
        RenamesFollowThreshold(prev_titles, curr_titles, renamed_sections, rename_threshold)

(***************************************************************************)
(* C19: every pair (old, new) of titles that are not exact matches, with    *)
(* old.lower() = new.lower() and old # new, is resolved in the case-only    *)
(* step before the similarity step: the new title is recorded as a rename   *)
(* of a case-equal old title, and a title consumed by a case-only rename    *)
(* is never a source or target of a similarity rename (previous {History,   *)
(* Uses}, current {history, Applications} gives the map {history: History}, *)
(* removed {Uses}, added {Applications}; here previous {AB, c}, current     *)
(* {ab, abb}).                                                              *)
(***************************************************************************)
CaseEntries(d) == {e \in d : CaseDiffers(e.old, e.new)}

CaseRenamesFirst(prev, curr, d) ==
    LET exact == prev \cap curr IN
    /\ \A o \in prev \ exact, n \in curr \ exact :
           CaseDiffers(o, n) => (DictHas(d, n) /\ CaseDiffers(DictGet(d, n), n))
    /\ \A e \in d \ CaseEntries(d) :
           /\ e.old \notin DictValues(CaseEntries(d))
           /\ e.new \notin DictKeys(CaseEntries(d))

C19_CaseRenamesFirst ==
    renPc = "done" =>
        /\ CaseRenamesFirst(prev_titles, curr_titles, renamed_sections)
        /\ (prev_titles = {t_AB, t_c} /\ curr_titles = {t_ab, t_abb}) =>
              /\ renamed_sections = {[new |-> t_ab, old |-> t_AB]}
              /\ (prev_titles \ curr_titles) \ DictValues(renamed_sections) = {t_c}
              /\ (curr_titles \ prev_titles) \ DictKeys(renamed_sections) = {t_abb}

\* a case-only rename next to a similarity rename
C19_Witness ==
    /\ renPc = "done"
    /\ CaseEntries(renamed_sections) # {}
    /\ renamed_sections \ CaseEntries(renamed_sections) # {}

(***************************************************************************)
(* C20: when a retained snapshot has exactly the title set of the previous  *)
(* retained snapshot, its renamed map and its removed set are empty and     *)
(* none of its sections is marked isNew or isRenamed; more generally a      *)
(* section whose title is an exact match in the previous retained snapshot  *)
(* is never marked isNew or isRenamed.                                      *)
(***************************************************************************)
ExactMatchesUnmarked(data, before) ==
    /\ \A i \in 1..Len(data.sections) :
           data.sections[i].title \in TitlesOf(before) =>
               /\ ~data.sections[i].isNew
               /\ ~data.sections[i].isRenamed
               /\ data.sections[i].previousTitle = None
    /\ TitlesOf(data.sections) = TitlesOf(before) =>
           (data.renamed = {} /\ data.removed = {})

C20_ExactMatchesUnmarked ==
    [][(AtRevision /\ Retains /\ ~IsNone(LastRetainedOutline))
         => ExactMatchesUnmarked(StoredData, Val(LastRetainedOutline))]_vars

\* two snapshots with the same non-empty title set, the second one after the first
C20_Witness ==
    /\ Len(Snapshots) = 2
    /\ Snapshots[2].data.sections # <<>>
    /\ TitlesOf(Snapshots[2].data.sections) = TitlesOf(Snapshots[1].data.sections)
    /\ Snapshots[2].data.renamed = {} /\ Snapshots[2].data.removed = {}
    /\ \A i \in 1..Len(Snapshots[2].data.sections) : ~Snapshots[2].data.sections[i].isNew

(***************************************************************************)
(* C21: extract_toc is total: for empty input it returns an empty outline,  *)
(* and for any input, including text without headings and text with         *)
(* malformed marker lines, it returns an outline without raising.           *)
(***************************************************************************)
\* a list of section records with a title, a level and a raw level
IsSectionList(secs) ==
    \A i \in 1..Len(secs) :
        /\ DOMAIN secs[i] = {"title", "level", "raw_level"}
        /\ secs[i].title # <<>>
        /\ secs[i].level \in 1..Len(lines)
        /\ secs[i].raw_level >= 1

\* no line of the text qualifies as a heading
NoHeadings(text) == \A i \in 1..Len(Split(text)) : ~IsHeading(Strip(Split(text)[i]))

\* the call can always go on until it returns: the error of line 98 is caught,
\* and the step of the loop on the next line yields a stack and an outline
NeverRaises ==
    /\ tocPc = "split" => ENABLED (TocSplit \/ TocExcept)
    /\ tocPc = "caught" => ENABLED TocReturn
    /\ tocPc = "loop" =>
          IF lineNo <= Len(lines)
          THEN LET st == TocLine([stack |-> current_level_stack,
                                  sections |-> sections], lines[lineNo])
               IN  IsSectionList(st.sections) /\ Len(st.stack) \in 0..lineNo
          ELSE ENABLED TocReturn

C21_ExtractTocIsTotal ==
    /\ NeverRaises
    /\ tocPc = "done" =>
          /\ IsSectionList(sections)
          /\ wikitext = <<>> => sections = <<>>
          /\ wikitext = NotAString => sections = <<>>
          /\ (wikitext # NotAString /\ NoHeadings(wikitext)) => sections = <<>>

\* returned after the error of an argument that is not a string was caught
C21_Witness ==
    /\ tocPc = "done" /\ wikitext = NotAString /\ sections = <<>> /\ lines = <<>>

(***************************************************************************)
(* C22: a qualifying heading line whose title is empty after stripping the  *)
(* markers and the whitespace is skipped: no section is emitted for it, the  *)
(* level stack is not changed by it, and the levels of all later headings    *)
(* are those of the text without the line.                                   *)
(***************************************************************************)
\* the loop of extract_toc is at a heading line with an empty title
AtEmptyTitle == AtHeading /\ HeadingTitle(Strip(lines[lineNo])) = <<>>

HasEmptyTitle(rawline) == IsHeading(Strip(rawline)) /\ HeadingTitle(Strip(rawline)) = <<>>

\* the text without its heading lines of empty title
WithoutEmptyTitles(text) ==
    JoinLines(SelectSeq(Split(text), LAMBDA l : ~HasEmptyTitle(l)))

C22_EmptyTitleIsSkipped ==
    /\ [][AtEmptyTitle => UNCHANGED <<sections, current_level_stack>>]_vars
    /\ []((tocPc = "done" /\ wikitext # NotAString)
            => sections = extract_toc(WithoutEmptyTitles(wikitext)))

(***************************************************************************)
(* C23: for every recognized heading line, the raw_level recorded by         *)
(* extract_toc is (number of marker characters on both sides of the title)   *)
(* / 2, whatever whitespace stands between the markers and the title:        *)
(* "== a ==" and "==a==" both have raw level 2 and get the same level.       *)
(***************************************************************************)
\* the number of '=' the line starts with, and ends with
OpenRun(line) == Len(line) - Len(LStrip(line, {"="}))
CloseRun(line) == Len(line) - Len(RStrip(line, {"="}))

\* the loop of extract_toc is at a heading line with a title
AtTitledHeading == AtHeading /\ HeadingTitle(Strip(lines[lineNo])) # <<>>

text_padded == MarkedLine(2, 1, <<"a">>, 1, 2)

C23_RawLevelCountsMarkers ==
    /\ [][AtTitledHeading =>
            LET line == Strip(lines[lineNo]) IN
            sections'[Len(sections')].raw_level
                = (OpenRun(line) + CloseRun(line)) \div 2]_vars
    /\ []((tocPc = "done" /\ wikitext \in {text_padded, Heading(2, <<"a">>)})
            => sections = <<[title |-> <<"a">>, level |-> 1, raw_level |-> 2]>>)

(***************************************************************************)
(* C24: a line whose opening and closing marker runs are mismatched (two     *)
(* markers before the title and three after) is not recognized as a heading  *)
(* by extract_toc: it emits no section and does not change the level stack.  *)
(***************************************************************************)
\* the loop of extract_toc is at a line whose marker runs differ in length
AtMismatched ==
    /\ tocPc = "loop" /\ lineNo <= Len(lines)
    /\ LET line == Strip(lines[lineNo]) IN
       /\ OpenRun(line) >= 1 /\ CloseRun(line) >= 1
       /\ OpenRun(line) # CloseRun(line)

C24_MismatchedNotRecognized ==
    [][AtMismatched => UNCHANGED <<sections, current_level_stack>>]_vars

(***************************************************************************)
(* C25: in the similarity step of detect_renamed_sections, each old title    *)
(* not matched exactly or by case is processed once: if the highest          *)
(* similarity to a new title still in the candidate pool is strictly above   *)
(* 0.65, that best-scoring new title becomes its rename target and leaves    *)
(* the pool before the next old title is processed; otherwise the old title  *)
(* gets no rename.                                                           *)
(***************************************************************************)
\* a score strictly greater than 0.65 = 13/20
Exceeds065(s) == 20 * s.num > 13 * s.den

\* the entries of a returned map that differ in more than letter case
SimilarityRenames(d) == {e \in d : ~CaseDiffers(e.old, e.new)}

\* the old and the new titles left to the similarity step
LeftOld(prev, curr, d) == (prev \ curr) \ DictValues(d \ SimilarityRenames(d))
LeftNew(prev, curr, d) == (curr \ prev) \ DictKeys(d \ SimilarityRenames(d))

\* the orders in which the old titles can be processed
Orders(S) ==
    {f \in [1..Cardinality(S) -> S] : \A i, j \in DOMAIN f : i # j => f[i] # f[j]}

\* d is what processing the old titles in this order, one after the other,
\* gives from this pool
RECURSIVE GreedyFrom(_, _, _)
GreedyFrom(order, pool, d) ==
    IF order = <<>> THEN d = {}
    ELSE LET o == Head(order)
             above == {n \in pool : Exceeds065(similarity(o, n))}
         IN  IF above = {}
             THEN o \notin DictValues(d) /\ GreedyFrom(Tail(order), pool, d)
             ELSE \E e \in d :
                     /\ e.old = o /\ e.new \in above
                     /\ \A c \in above :
                           ScoreLeq(similarity(o, c), similarity(o, e.new))
                     /\ GreedyFrom(Tail(order), pool \ {e.new}, d \ {e})

C25_SimilarityStepIsGreedy ==
    renPc = "done" =>
        \E order \in Orders(LeftOld(prev_titles, curr_titles, renamed_sections)) :
            GreedyFrom(order, LeftNew(prev_titles, curr_titles, renamed_sections),
                       SimilarityRenames(renamed_sections))

\* an old title had two candidates above 0.65 and took the better one
C25_Witness ==
    /\ renPc = "done"
    /\ prev_titles = {t_abc} /\ curr_titles = {t_ab, t_abcd}
    /\ renamed_sections = {[new |-> t_abcd, old |-> t_abc]}
    /\ Exceeds065(similarity(t_abc, t_ab))
    /\ ~ScoreLeq(similarity(t_abc, t_abcd), similarity(t_abc, t_ab))

(***************************************************************************)
(* C26: every section of a retained snapshot after the first is in exactly   *)
(* one of three states relative to the previous retained snapshot: unchanged *)
(* (its title is in the previous title set, no flag set), renamed (isRenamed *)
(* set and previousTitle = renamed[title], a title of the previous           *)
(* snapshot), or new (isNew set, its title neither in the previous title set *)
(* nor a key of the renamed map); isNew and isRenamed are never both set.    *)
(***************************************************************************)
IsUnchanged(sec, data, before) ==
    /\ sec.title \in TitlesOf(before)
    /\ ~sec.isNew /\ ~sec.isRenamed /\ sec.previousTitle = None

IsRenamedFrom(sec, data, before) ==
    /\ sec.isRenamed /\ ~sec.isNew
    /\ \E e \in data.renamed : e.new = sec.title /\ sec.previousTitle = Some(e.old)
    /\ ~IsNone(sec.previousTitle) /\ Val(sec.previousTitle) \in TitlesOf(before)

IsNewSection(sec, data, before) ==
    /\ sec.isNew /\ ~sec.isRenamed /\ sec.previousTitle = None
    /\ sec.title \notin TitlesOf(before)
    /\ sec.title \notin DictKeys(data.renamed)

SectionStates(sec, data, before) ==
    {k \in {"unchanged", "renamed", "new"} :
        \/ k = "unchanged" /\ IsUnchanged(sec, data, before)
        \/ k = "renamed" /\ IsRenamedFrom(sec, data, before)
        \/ k = "new" /\ IsNewSection(sec, data, before)}

C26_SectionInOneState ==
    [][(AtRevision /\ Retains /\ ~IsNone(LastRetainedOutline))
         => \A i \in 1..Len(StoredData.sections) :
               /\ Cardinality(SectionStates(StoredData.sections[i], StoredData,
                                            Val(LastRetainedOutline))) = 1
               /\ ~(StoredData.sections[i].isNew /\ StoredData.sections[i].isRenamed)]_vars

\* a second snapshot with a renamed section, a new section and an unchanged one
C26_Witness ==
    /\ Len(Snapshots) = 2
    /\ \E i, j, k \in 1..Len(Snapshots[2].data.sections) :
          LET secs == Snapshots[2].data.sections
              before == Snapshots[1].data.sections
          IN  /\ IsRenamedFrom(secs[i], Snapshots[2].data, before)
              /\ IsNewSection(secs[j], Snapshots[2].data, before)
              /\ IsUnchanged(secs[k], Snapshots[2].data, before)

(***************************************************************************)
(* C28: every revision that process_revision_history decides to retain       *)
(* appears as its own entry in the returned History: the number of snapshot  *)
(* entries equals the number of retention decisions (in significant mode     *)
(* the length of the significant_revisions list of _metadata), each entry's  *)
(* diff annotations refer to the entry before it, and no retained snapshot   *)
(* is overwritten by a later one with the same key.                          *)
(***************************************************************************)
\* the retention decisions taken so far
RetentionDecisions ==
    IF mode = "significant" THEN Len(significant_revisions)
    ELSE Cardinality(years_processed)

C28_EveryRetainedHasEntry ==
    /\ [](histPc # "off" => Len(Snapshots) = RetentionDecisions)
    /\ [][(AtRevision /\ Retains)
            => /\ Len(toc_revisions') = Len(toc_revisions) + 1
               /\ SubSeq(toc_revisions', 1, Len(toc_revisions)) = toc_revisions]_vars
    /\ [](histPc = "done" =>
            \A i \in 2..Len(Snapshots) :
                /\ DiffedAgainst(Snapshots[i].data, Snapshots[i - 1].data)
                /\ Snapshots[i].data.revid # Snapshots[i - 1].data.revid)

(***************************************************************************)
(* C30: in the first retained snapshot of any History, in both modes, every  *)
(* section is marked isNew, none is marked isRenamed, and its renamed map    *)
(* and removed set are empty.                                                *)
(***************************************************************************)
AllNew(data) ==
    /\ \A i \in 1..Len(data.sections) :
           /\ data.sections[i].isNew
           /\ ~data.sections[i].isRenamed
           /\ data.sections[i].previousTitle = None
    /\ data.renamed = {}
    /\ data.removed = {}

C30_FirstSnapshotAllNew ==
    /\ [][(AtRevision /\ Retains /\ IsNone(previous_sections)) => AllNew(StoredData)]_vars
    /\ [](Snapshots # <<>> => AllNew(Snapshots[1].data))

(***************************************************************************)
(* C29: the map returned by detect_renamed_sections is a function of the two *)
(* title sets alone: every order of iterating the old titles, and every      *)
(* order of candidate new titles with equal scores, yields the same map.     *)
(***************************************************************************)
C29_RenamedMapIsDetermined ==
    renPc = "done" =>
        \A d \in detect_renamed_sections(prev_titles, curr_titles) : d = renamed_sections

(***************************************************************************)
(* C27: get_toc_history keeps exactly one revision per calendar year, and    *)
(* marks a section isNew exactly when its title is absent from the outline   *)
(* kept for the chronologically preceding retained year, for the revision    *)
(* order that get_page_history delivers.                                     *)
(***************************************************************************)
\* the years of the revisions of the list
YearsOfRevisions == {YearOf(util_revisions[i].timestamp) : i \in 1..Len(util_revisions)}

\* the index of the entry of the greatest year before that of entry i, 0 if none
PrecedingEntry(h, i) ==
    LET before == {j \in 1..Len(h) : h[j].year < h[i].year} IN
    IF before = {} THEN 0
    ELSE CHOOSE j \in before : \A k \in before : h[k].year <= h[j].year

\* the entry is the outline of a revision of its year
KeptFromItsYear(e) ==
    \E i \in 1..Len(util_revisions) :
        /\ YearOf(util_revisions[i].timestamp) = e.year
        /\ TitlesOf(e.sections)
               = TitlesOf(wiki_extract_toc(util_revisions[i].content))

C27_NewAgainstPrecedingYear ==
    utilPc = "done" =>
        LET h == Val(util_result) IN
        /\ \A i, j \in 1..Len(h) : h[i].year = h[j].year => i = j
        /\ {h[i].year : i \in 1..Len(h)} = YearsOfRevisions
        /\ \A i \in 1..Len(h) : KeptFromItsYear(h[i])
        /\ \A i \in 1..Len(h) :
              PrecedingEntry(h, i) # 0 =>
                  \A k \in 1..Len(h[i].sections) :
                      h[i].sections[k].isNew
                          <=> h[i].sections[k].title
                                  \notin TitlesOf(h[PrecedingEntry(h, i)].sections)

====
